---- MODULE Spec2Model ----
(***************************************************************************)
(* Model of the hybrid sharded store (HybridDataStructure), the worker     *)
(* pool that feeds it from a pre-populated queue (worker), and the two     *)
(* sweep drivers: run_test called from the main loop of the queue-based    *)
(* benchmark, and scalability_test.                                        *)
(*                                                                         *)
(* Every statement `x += e` on a field of the store is a read of the field *)
(* followed by a write of the field; the model keeps the two apart (a      *)
(* worker-local register tmp holds the value read), so that the only       *)
(* thing that makes an update atomic is the mutex held around it.          *)
(***************************************************************************)
EXTENDS Integers, Sequences, FiniteSets, TLC

\* ---- bounds of the model ----
MaxOps == 2          \* largest num_operations of a run

\* ---- program constants ----
num_shards == 4

\* the thread counts of a configuration: the first two of the sweep's list, and
\* the run without any worker
ThreadCounts == {0, 1, 2}
Workers == ThreadCounts \ {0}
Keys == {"a", "b", "c"}
Kinds == {"local", "critical", "hybrid"}
\* the measured lock waits, in clock ticks
WaitTimes == {0, 1}
Shards == 0..(num_shards - 1)
\* what dict.get(key, None) returns: None, or the value found
None == [present |-> FALSE, value |-> 0]
Some(v) == [present |-> TRUE, value |-> v]
NoTask == [id |-> 0, kind |-> "none", key |-> "none", value |-> 0]

\* hash() of the keys of the model: "a" and "b" collide modulo num_shards,
\* "c" does not; one of the hashes is negative, as Python's may be.
hash(key) == CASE key = "a" -> -3 [] key = "b" -> 5 [] OTHER -> 6

_get_shard_index(key) == hash(key) % num_shards

VARIABLES
  \* HybridDataStructure
  local_locks,     \* shard -> worker holding the shard mutex, 0 when free
  local_data,      \* shard -> dict (a function on the keys present)
  global_lock,     \* worker holding the global mutex, 0 when free
  global_counter,
  local_reads,
  local_writes,
  lock_wait_time,
  write_conflicts,
  \* queue.Queue
  task_queue,      \* FIFO of tasks
  unfinished_tasks, \* Queue's count of put() not yet matched by task_done()
  \* worker threads
  pc,              \* worker -> position in worker()
  task,            \* worker -> task being processed
  tmp,             \* worker -> value read by the running read-modify-write
  read_result,     \* worker -> value returned by its last local_read
  \* driver
  thread_counts,
  num_operations,
  cfg,             \* index in thread_counts of the running configuration
  dpc,             \* position of the driver
  join_idx,        \* index of the thread the driver is joining
  results,
  plan,            \* configuration -> the tasks its generator draws
  \* history
  executed,        \* task id -> number of times a worker finished it
  wrote,           \* task id -> the task was dispatched to local_write
  present_writes,   \* number of local_write calls that found their key present
  timed_out        \* the threads of the configuration whose join timed out

store == <<local_locks, local_data, global_lock, global_counter,
           local_reads, local_writes, lock_wait_time, write_conflicts>>
wvars == <<pc, task, tmp, read_result>>
dvars == <<thread_counts, num_operations, cfg, dpc, join_idx, results, plan>>
hvars == <<executed, wrote, present_writes, timed_out>>
vars == <<store, task_queue, unfinished_tasks, wvars, dvars, hvars>>

\* ---- dictionaries ----
EmptyDict == [k \in {} |-> 0]
DictGet(d, key, default) == IF key \in DOMAIN d THEN d[key] ELSE default
\* a lookup that answers 0 for a key that is not there
DictGetOrZero(d, key) == Some(DictGet(d, key, 0))

\* d.get(key, None)
DictGetOrNone(d, key) == IF key \in DOMAIN d THEN Some(d[key]) ELSE None
\* an assignment that leaves the dict with the one key assigned
DictSetOnly(d, key, v) == [k \in {key} |-> v]

\* d[key] = v
DictSet(d, key, v) == [k \in (DOMAIN d) \cup {key} |-> IF k = key THEN v ELSE d[k]]

RECURSIVE SumValues(_)
SumValues(d) ==
  IF DOMAIN d = {} THEN 0
  ELSE LET k == CHOOSE x \in DOMAIN d : TRUE
       IN d[k] + SumValues([x \in (DOMAIN d) \ {k} |-> d[x]])

RECURSIVE SumShards(_, _)
SumShards(data, n) ==
  IF n = 0 THEN 0 ELSE SumValues(data[n - 1]) + SumShards(data, n - 1)

total_local_sum == SumShards(local_data, num_shards)
difference == global_counter - total_local_sum

\* every field of the store but its mutexes
StoreData == <<local_data, global_counter, local_reads, local_writes,
               lock_wait_time, write_conflicts>>


\* ---- the store: HybridDataStructure ----
FreshLocks == [s \in Shards |-> 0]
FreshData == [s \in Shards |-> EmptyDict]

\* __init__: every field of a new store
StoreInit ==
  /\ local_locks = FreshLocks
  /\ local_data = FreshData
  /\ global_lock = 0
  /\ global_counter = 0
  /\ local_reads = 0
  /\ local_writes = 0
  /\ lock_wait_time = 0
  /\ write_conflicts = 0

\* hybrid_ds = HybridDataStructure(num_shards=4)
StoreFresh ==
  /\ local_locks' = FreshLocks
  /\ local_data' = FreshData
  /\ global_lock' = 0
  /\ global_counter' = 0
  /\ local_reads' = 0
  /\ local_writes' = 0
  /\ lock_wait_time' = 0
  /\ write_conflicts' = 0

\* a mutex that never makes a thread wait
CanAcquireAlways(holder) == TRUE

\* threading.Lock: acquire blocks until the mutex is free
CanAcquire(holder) == holder = 0

\* a write that replaces the accumulator
AccumulateOverwrite(old, value) == value

\* the value local_write stores for a key: the old accumulator plus value
Accumulate(old, value) == old + value

\* an update by the default increment of critical_update
AddDefaultIncrement(old, increment) == old + 1

\* the counter critical_update stores: the old counter plus increment
AddIncrement(old, increment) == old + increment

\* a get that leaves the task on the queue
QueueKept(q) == q

\* Queue.get: the task handed out and the queue it leaves behind
QueueHead(q) == Head(q)
QueueRest(q) == Tail(q)

\* a get that gives up while one task is left
QueueNearlyEmpty(q) == Len(q) <= 1

\* queue.Empty is raised only when the queue holds no task
QueueIsEmpty(q) == Len(q) = 0

Goto(w, l) == pc' = [pc EXCEPT ![w] = l]
\* a shard picked by the calling thread instead of the key
ShardOfThread(w) == w

\* shard_index of the call worker w is running
Shard(w) == _get_shard_index(task[w].key)

\* ---- local_write ----
\* with self.local_locks[shard_index]:  lock_time = perf_counter() - start_time
LwAcquire(w) ==
  /\ pc[w] = "lw_acq"
  /\ CanAcquire(local_locks[Shard(w)])
  /\ local_locks' = [local_locks EXCEPT ![Shard(w)] = w]
  /\ Goto(w, "lw_wait_rd")
  /\ UNCHANGED <<local_data, global_lock, global_counter, local_reads, local_writes,
                 lock_wait_time, write_conflicts, task_queue, unfinished_tasks,
                 task, tmp, read_result, dvars, hvars>>

\* self.lock_wait_time += lock_time   (read)
LwWaitRead(w) ==
  /\ pc[w] = "lw_wait_rd"
  /\ tmp' = [tmp EXCEPT ![w] = lock_wait_time]
  /\ Goto(w, "lw_wait_wr")
  /\ UNCHANGED <<store, task_queue, unfinished_tasks, task, read_result,
                 dvars, hvars>>

\* self.lock_wait_time += lock_time   (write)
LwWaitWrite(w) ==
  /\ pc[w] = "lw_wait_wr"
  /\ \E lock_time \in WaitTimes : lock_wait_time' = tmp[w] + lock_time
  /\ tmp' = [tmp EXCEPT ![w] = 0]
  /\ Goto(w, "lw_check")
  /\ UNCHANGED <<local_locks, local_data, global_lock, global_counter, local_reads,
                 local_writes, write_conflicts, task_queue, unfinished_tasks,
                 task, read_result, dvars, hvars>>

\* if key in self.local_data[shard_index]:
LwCheck(w) ==
  /\ pc[w] = "lw_check"
  /\ IF task[w].key \in DOMAIN local_data[Shard(w)]
       THEN /\ Goto(w, "lw_conf_rd")
            /\ present_writes' = present_writes + 1
       ELSE /\ Goto(w, "lw_data_rd")
            /\ UNCHANGED present_writes
  /\ UNCHANGED <<store, task_queue, unfinished_tasks, task, tmp, read_result,
                 dvars, executed, wrote, timed_out>>

\* self.write_conflicts += 1   (read)
LwConflictRead(w) ==
  /\ pc[w] = "lw_conf_rd"
  /\ tmp' = [tmp EXCEPT ![w] = write_conflicts]
  /\ Goto(w, "lw_conf_wr")
  /\ UNCHANGED <<store, task_queue, unfinished_tasks, task, read_result,
                 dvars, hvars>>

\* self.write_conflicts += 1   (write)
LwConflictWrite(w) ==
  /\ pc[w] = "lw_conf_wr"
  /\ write_conflicts' = tmp[w] + 1
  /\ tmp' = [tmp EXCEPT ![w] = 0]
  /\ Goto(w, "lw_data_rd")
  /\ UNCHANGED <<local_locks, local_data, global_lock, global_counter, local_reads,
                 local_writes, lock_wait_time, task_queue, unfinished_tasks,
                 task, read_result, dvars, hvars>>

\* self.local_data[shard_index].get(key, 0)
LwDataRead(w) ==
  /\ pc[w] = "lw_data_rd"
  /\ tmp' = [tmp EXCEPT ![w] = DictGet(local_data[Shard(w)], task[w].key, 0)]
  /\ Goto(w, "lw_data_wr")
  /\ UNCHANGED <<store, task_queue, unfinished_tasks, task, read_result,
                 dvars, hvars>>

\* self.local_data[shard_index][key] = ... + value
LwDataWrite(w) ==
  /\ pc[w] = "lw_data_wr"
  /\ local_data' = [local_data EXCEPT ![Shard(w)] =
                      DictSet(@, task[w].key, Accumulate(tmp[w], task[w].value))]
  /\ tmp' = [tmp EXCEPT ![w] = 0]
  /\ Goto(w, "lw_writes_rd")
  /\ UNCHANGED <<local_locks, global_lock, global_counter, local_reads, local_writes,
                 lock_wait_time, write_conflicts, task_queue, unfinished_tasks,
                 task, read_result, dvars, hvars>>

\* self.local_writes += 1   (read)
LwWritesRead(w) ==
  /\ pc[w] = "lw_writes_rd"
  /\ tmp' = [tmp EXCEPT ![w] = local_writes]
  /\ Goto(w, "lw_writes_wr")
  /\ UNCHANGED <<store, task_queue, unfinished_tasks, task, read_result,
                 dvars, hvars>>

\* self.local_writes += 1   (write)
LwWritesWrite(w) ==
  /\ pc[w] = "lw_writes_wr"
  /\ local_writes' = tmp[w] + 1
  /\ tmp' = [tmp EXCEPT ![w] = 0]
  /\ Goto(w, "lw_rel")
  /\ UNCHANGED <<local_locks, local_data, global_lock, global_counter, local_reads,
                 lock_wait_time, write_conflicts, task_queue, unfinished_tasks,
                 task, read_result, dvars, hvars>>

\* a hybrid_operation that stops after its local write
AfterLocalWriteOnly(kind) == "task_done"

\* where control goes when local_write returns: to the critical_update of
\* hybrid_operation, or back to worker
AfterLocalWrite(kind) == IF kind = "hybrid" THEN "cu_acq" ELSE "task_done"

\* a local_write that returns with its shard mutex held
LwStillHeld(locks, s) == locks

\* the shard mutexes once local_write leaves its with block
LwReleased(locks, s) == [locks EXCEPT ![s] = 0]

\* end of the with block; local_write returns, to hybrid_operation (which goes on
\* to critical_update) or to worker (which goes on to task_done)
LwRelease(w) ==
  /\ pc[w] = "lw_rel"
  /\ local_locks' = LwReleased(local_locks, Shard(w))
  /\ Goto(w, AfterLocalWrite(task[w].kind))
  /\ UNCHANGED <<local_data, global_lock, global_counter, local_reads, local_writes,
                 lock_wait_time, write_conflicts, task_queue, unfinished_tasks,
                 task, tmp, read_result, dvars, hvars>>


\* ---- local_read ----
\* with self.local_locks[shard_index]:
LrAcquire(w) ==
  /\ pc[w] = "lr_acq"
  /\ CanAcquire(local_locks[Shard(w)])
  /\ local_locks' = [local_locks EXCEPT ![Shard(w)] = w]
  /\ Goto(w, "lr_reads_rd")
  /\ UNCHANGED <<local_data, global_lock, global_counter, local_reads, local_writes,
                 lock_wait_time, write_conflicts, task_queue, unfinished_tasks,
                 task, tmp, read_result, dvars, hvars>>

\* self.local_reads += 1   (read)
LrReadsRead(w) ==
  /\ pc[w] = "lr_reads_rd"
  /\ tmp' = [tmp EXCEPT ![w] = local_reads]
  /\ Goto(w, "lr_reads_wr")
  /\ UNCHANGED <<store, task_queue, unfinished_tasks, task, read_result,
                 dvars, hvars>>

\* self.local_reads += 1   (write)
LrReadsWrite(w) ==
  /\ pc[w] = "lr_reads_wr"
  /\ local_reads' = tmp[w] + 1
  /\ tmp' = [tmp EXCEPT ![w] = 0]
  /\ Goto(w, "lr_ret")
  /\ UNCHANGED <<local_locks, local_data, global_lock, global_counter, local_writes,
                 lock_wait_time, write_conflicts, task_queue, unfinished_tasks,
                 task, read_result, dvars, hvars>>

\* return self.local_data[shard_index].get(key, None), leaving the with block
LrReturn(w) ==
  /\ pc[w] = "lr_ret"
  /\ read_result' = [read_result EXCEPT ![w] =
                       DictGetOrNone(local_data[Shard(w)], task[w].key)]
  /\ local_locks' = [local_locks EXCEPT ![Shard(w)] = 0]
  /\ Goto(w, "task_done")
  /\ UNCHANGED <<local_data, global_lock, global_counter, local_reads, local_writes,
                 lock_wait_time, write_conflicts, task_queue, unfinished_tasks,
                 task, tmp, dvars, hvars>>

\* ---- critical_update ----
\* with self.global_lock:  lock_time = perf_counter() - start_time
CuAcquire(w) ==
  /\ pc[w] = "cu_acq"
  /\ CanAcquire(global_lock)
  /\ global_lock' = w
  /\ Goto(w, "cu_wait_rd")
  /\ UNCHANGED <<local_locks, local_data, global_counter, local_reads, local_writes,
                 lock_wait_time, write_conflicts, task_queue, unfinished_tasks,
                 task, tmp, read_result, dvars, hvars>>

\* self.lock_wait_time += lock_time   (read)
CuWaitRead(w) ==
  /\ pc[w] = "cu_wait_rd"
  /\ tmp' = [tmp EXCEPT ![w] = lock_wait_time]
  /\ Goto(w, "cu_wait_wr")
  /\ UNCHANGED <<store, task_queue, unfinished_tasks, task, read_result,
                 dvars, hvars>>

\* self.lock_wait_time += lock_time   (write)
CuWaitWrite(w) ==
  /\ pc[w] = "cu_wait_wr"
  /\ \E lock_time \in WaitTimes : lock_wait_time' = tmp[w] + lock_time
  /\ tmp' = [tmp EXCEPT ![w] = 0]
  /\ Goto(w, "cu_ctr_rd")
  /\ UNCHANGED <<local_locks, local_data, global_lock, global_counter, local_reads,
                 local_writes, write_conflicts, task_queue, unfinished_tasks,
                 task, read_result, dvars, hvars>>

\* self.global_counter += increment   (read)
CuCounterRead(w) ==
  /\ pc[w] = "cu_ctr_rd"
  /\ tmp' = [tmp EXCEPT ![w] = global_counter]
  /\ Goto(w, "cu_ctr_wr")
  /\ UNCHANGED <<store, task_queue, unfinished_tasks, task, read_result,
                 dvars, hvars>>

\* self.global_counter += increment   (write); worker and hybrid_operation both
\* pass the task's value as increment
CuCounterWrite(w) ==
  /\ pc[w] = "cu_ctr_wr"
  /\ global_counter' = AddIncrement(tmp[w], task[w].value)
  /\ tmp' = [tmp EXCEPT ![w] = 0]
  /\ Goto(w, "cu_rel")
  /\ UNCHANGED <<local_locks, local_data, global_lock, local_reads, local_writes,
                 lock_wait_time, write_conflicts, task_queue, unfinished_tasks,
                 task, read_result, dvars, hvars>>

\* end of the with block; critical_update returns to worker
CuRelease(w) ==
  /\ pc[w] = "cu_rel"
  /\ global_lock' = 0
  /\ Goto(w, "task_done")
  /\ UNCHANGED <<local_locks, local_data, global_counter, local_reads, local_writes,
                 lock_wait_time, write_conflicts, task_queue, unfinished_tasks,
                 task, tmp, read_result, dvars, hvars>>

\* ---- faults inside the with blocks ----
\* the positions at which a statement of a with block is still to run
LwBlockPcs == {"lw_wait_rd", "lw_wait_wr", "lw_check", "lw_conf_rd", "lw_conf_wr",
               "lw_data_rd", "lw_data_wr", "lw_writes_rd", "lw_writes_wr"}
LrBlockPcs == {"lr_reads_rd", "lr_reads_wr", "lr_ret"}
CuBlockPcs == {"cu_wait_rd", "cu_wait_wr", "cu_ctr_rd", "cu_ctr_wr"}

\* the statement local_write is about to run raises an Exception (a TypeError
\* of the += on a value that is not a number, a MemoryError): the with block is
\* left, which releases the shard mutex, and control is in the except clause
LwFault(w) ==
  /\ pc[w] \in LwBlockPcs
  /\ local_locks' = [local_locks EXCEPT ![Shard(w)] = 0]
  /\ tmp' = [tmp EXCEPT ![w] = 0]
  /\ Goto(w, "lw_except")
  /\ UNCHANGED <<local_data, global_lock, global_counter, local_reads, local_writes,
                 lock_wait_time, write_conflicts, task_queue, unfinished_tasks,
                 task, read_result, dvars, hvars>>

\* except Exception as e: print(...); local_write returns, to hybrid_operation
\* or to worker
LwExcept(w) ==
  /\ pc[w] = "lw_except"
  /\ Goto(w, AfterLocalWrite(task[w].kind))
  /\ UNCHANGED <<store, task_queue, unfinished_tasks, task, tmp, read_result,
                 dvars, hvars>>

\* the same in local_read
LrFault(w) ==
  /\ pc[w] \in LrBlockPcs
  /\ local_locks' = [local_locks EXCEPT ![Shard(w)] = 0]
  /\ tmp' = [tmp EXCEPT ![w] = 0]
  /\ Goto(w, "lr_except")
  /\ UNCHANGED <<local_data, global_lock, global_counter, local_reads, local_writes,
                 lock_wait_time, write_conflicts, task_queue, unfinished_tasks,
                 task, read_result, dvars, hvars>>

\* except Exception as e: print(...); local_read falls off its end and returns None
LrExcept(w) ==
  /\ pc[w] = "lr_except"
  /\ read_result' = [read_result EXCEPT ![w] = None]
  /\ Goto(w, "task_done")
  /\ UNCHANGED <<store, task_queue, unfinished_tasks, task, tmp, dvars, hvars>>

\* the same in critical_update: the global mutex is released
CuFault(w) ==
  /\ pc[w] \in CuBlockPcs
  /\ global_lock' = 0
  /\ tmp' = [tmp EXCEPT ![w] = 0]
  /\ Goto(w, "cu_except")
  /\ UNCHANGED <<local_locks, local_data, global_counter, local_reads, local_writes,
                 lock_wait_time, write_conflicts, task_queue, unfinished_tasks,
                 task, read_result, dvars, hvars>>

\* except Exception as e: print(...); critical_update returns to worker
CuExcept(w) ==
  /\ pc[w] = "cu_except"
  /\ Goto(w, "task_done")
  /\ UNCHANGED <<store, task_queue, unfinished_tasks, task, tmp, read_result,
                 dvars, hvars>>

FaultStep(w) ==
  \/ LwFault(w) \/ LwExcept(w)
  \/ LrFault(w) \/ LrExcept(w)
  \/ CuFault(w) \/ CuExcept(w)

\* ---- worker ----
\* a worker that runs every task as a local write
DispatchAllToWrite(kind, coin) == "lw_acq"

\* the first position of the operation worker dispatches a task to;
\* coin is random.random() < 0.5
Dispatch(kind, coin) ==
  CASE kind = "local" -> IF coin THEN "lw_acq" ELSE "lr_acq"
    [] kind = "critical" -> "cu_acq"
    [] OTHER -> "lw_acq"

\* task_type, key, value = task_queue.get(timeout=2), a task being available
WorkerGet(w) ==
  /\ pc[w] = "get"
  /\ ~QueueIsEmpty(task_queue)
  /\ task' = [task EXCEPT ![w] = QueueHead(task_queue)]
  /\ task_queue' = QueueRest(task_queue)
  /\ \E coin \in BOOLEAN :
       /\ Goto(w, Dispatch(QueueHead(task_queue).kind, coin))
       /\ wrote' = [wrote EXCEPT ![QueueHead(task_queue).id] =
                      Dispatch(QueueHead(task_queue).kind, coin) = "lw_acq"]
  /\ UNCHANGED <<store, unfinished_tasks, tmp, read_result, dvars,
                 executed, present_writes, timed_out>>

\* except queue.Empty: return
WorkerExit(w) ==
  /\ pc[w] = "get"
  /\ QueueIsEmpty(task_queue)
  /\ Goto(w, "exited")
  /\ UNCHANGED <<store, task_queue, unfinished_tasks, task, tmp,
                 read_result, dvars, hvars>>

\* task_queue.task_done(), then back to the head of the loop
WorkerTaskDone(w) ==
  /\ pc[w] = "task_done"
  /\ unfinished_tasks' = unfinished_tasks - 1
  /\ executed' = [executed EXCEPT ![task[w].id] = @ + 1]
  /\ task' = [task EXCEPT ![w] = NoTask]
  /\ Goto(w, "get")
  /\ UNCHANGED <<store, task_queue, tmp, read_result, dvars,
                 wrote, present_writes, timed_out>>

WorkerStep(w) ==
  \/ WorkerGet(w) \/ WorkerExit(w) \/ WorkerTaskDone(w)
  \/ LwAcquire(w) \/ LwWaitRead(w) \/ LwWaitWrite(w) \/ LwCheck(w)
  \/ LwConflictRead(w) \/ LwConflictWrite(w) \/ LwDataRead(w) \/ LwDataWrite(w)
  \/ LwWritesRead(w) \/ LwWritesWrite(w) \/ LwRelease(w)
  \/ LrAcquire(w) \/ LrReadsRead(w) \/ LrReadsWrite(w) \/ LrReturn(w)
  \/ CuAcquire(w) \/ CuWaitRead(w) \/ CuWaitWrite(w)
  \/ CuCounterRead(w) \/ CuCounterWrite(w) \/ CuRelease(w)


\* ---- drivers ----
\* the tasks a workload can hold (random.choices / randint of the generator):
\* every kind, on a key of either shard, each key with a value of its own
KeyValues == {<<"a", 1>>, <<"c", 2>>}
TaskChoices == { [kind |-> k, key |-> kv[1], value |-> kv[2]] :
                 k \in Kinds, kv \in KeyValues }

\* the queues a generator can fill from the tasks of pool: n tasks, in the order
\* they are put; id is the identity of the tuple
Workloads(pool, n) ==
  { [i \in 1..n |-> [id |-> i, kind |-> f[i].kind, key |-> f[i].key,
                     value |-> f[i].value]] : f \in [1..n -> pool] }

num_threads == IF cfg \in 1..Len(thread_counts) THEN thread_counts[cfg] ELSE 0
generated == IF cfg \in 1..Len(plan) THEN plan[cfg] ELSE <<>>

AllIdle == [w \in Workers |-> "idle"]
NoTasks == [w \in Workers |-> NoTask]
Zeros == [w \in Workers |-> 0]
NoReads == [w \in Workers |-> None]
TaskIds == 1..(MaxOps + 2)

\* task_queue = queue.Queue(); for _ in range(num_operations): task_queue.put(...)
\* The threads of the configuration are new Thread objects, not yet started.
Populate ==
  /\ task_queue' = plan[cfg + 1]
  /\ unfinished_tasks' = Len(plan[cfg + 1])
  /\ executed' = [i \in TaskIds |-> 0]
  /\ wrote' = [i \in TaskIds |-> FALSE]
  /\ present_writes' = 0
  /\ timed_out' = {}
  /\ pc' = AllIdle
  /\ task' = NoTasks
  /\ tmp' = Zeros
  /\ read_result' = NoReads

\* main loop of the queue benchmark: a new store for the configuration, then
\* run_test up to the point where the queue is filled
MainIter ==
  /\ dpc = "main"
  /\ cfg < Len(thread_counts)
  /\ cfg' = cfg + 1
  /\ StoreFresh
  /\ Populate
  /\ dpc' = "start"
  /\ UNCHANGED <<thread_counts, num_operations, join_idx, results, plan>>

\* a pool that starts every thread it could have, whatever the count asked for
StartedAll(n) == [w \in Workers |-> "get"]

\* the positions of the threads once the first n of them are started
StartedThreads(n) == [w \in Workers |-> IF w <= n THEN "get" ELSE "idle"]

\* for i in range(num_threads): t = Thread(target=worker, ...); t.start()
StartThreads ==
  /\ dpc = "start"
  /\ pc' = StartedThreads(num_threads)
  /\ dpc' = "join"
  /\ join_idx' = 1
  /\ UNCHANGED <<store, task_queue, unfinished_tasks, task, tmp, read_result,
                 thread_counts, num_operations, cfg, results, plan, hvars>>

\* a join that takes any thread for a finished one
HasFinishedAlways(p) == TRUE

\* the thread at position p has returned from worker()
HasFinished(p) == p = "exited"

\* t.join(...) returns because thread t has finished
JoinReturn ==
  /\ dpc = "join"
  /\ join_idx <= num_threads
  /\ HasFinished(pc[join_idx])
  /\ join_idx' = join_idx + 1
  /\ UNCHANGED <<store, task_queue, unfinished_tasks, wvars, thread_counts,
                 num_operations, cfg, dpc, results, plan, hvars>>

\* t.join(timeout=5) returns because the timeout has passed, t still running
JoinTimeout ==
  /\ dpc = "join"
  /\ join_idx <= num_threads
  /\ ~HasFinished(pc[join_idx])
  /\ join_idx' = join_idx + 1
  /\ timed_out' = timed_out \cup {join_idx}
  /\ UNCHANGED <<store, task_queue, unfinished_tasks, wvars, thread_counts,
                 num_operations, cfg, dpc, results, plan,
                 executed, wrote, present_writes>>

\* total_local_sum, difference and the tuple run_test returns, appended to results
Measure ==
  /\ dpc = "join"
  /\ join_idx > num_threads
  /\ results' = Append(results,
                  <<num_threads, difference, lock_wait_time, write_conflicts>>)
  /\ dpc' = "main"
  /\ UNCHANGED <<store, task_queue, unfinished_tasks, wvars, thread_counts,
                 num_operations, cfg, join_idx, plan, hvars>>

\* the sweep is over (the plots are drawn from results)
MainDone ==
  /\ dpc = "main"
  /\ cfg = Len(thread_counts)
  /\ dpc' = "done"
  /\ UNCHANGED <<store, task_queue, unfinished_tasks, wvars, thread_counts,
                 num_operations, cfg, join_idx, results, plan, hvars>>

InitCommon ==
  /\ StoreInit
  /\ task_queue = <<>>
  /\ unfinished_tasks = 0
  /\ pc = AllIdle
  /\ task = NoTasks
  /\ tmp = Zeros
  /\ read_result = NoReads
  /\ cfg = 0
  /\ dpc = "main"
  /\ join_idx = 1
  /\ results = <<>>
  /\ executed = [i \in TaskIds |-> 0]
  /\ wrote = [i \in TaskIds |-> FALSE]
  /\ present_writes = 0
  /\ timed_out = {}

\* A sweep of one configuration, of any of the thread counts and any workload of
\* at most MaxOps tasks. The configurations of the sweep of the queue benchmark
\* share nothing (a new store, a new queue and new threads each), so one
\* configuration stands for each of them.
Init ==
  /\ InitCommon
  /\ thread_counts \in { <<n>> : n \in ThreadCounts }
  /\ num_operations \in 0..MaxOps
  /\ plan \in { <<q>> : q \in Workloads(TaskChoices, num_operations) }

\* the steps of run_test and its workers when every join ends with its thread
Next ==
  \/ MainIter
  \/ StartThreads
  \/ JoinReturn
  \/ Measure
  \/ MainDone
  \/ \E w \in Workers : WorkerStep(w)

Spec == Init /\ [][Next]_vars

\* the same with joins that may time out: the driver goes on while a worker is
\* still running. A timed-out join changes the position of the driver only,
\* never the store or a worker.
NextTimeout == Next \/ JoinTimeout

SpecTimeout == Init /\ [][NextTimeout]_vars

\* the steps of run_test and its workers when statements of the with blocks may
\* raise
NextFault == Next \/ \E w \in Workers : FaultStep(w)

SpecFault == Init /\ [][NextFault]_vars


\* ---- scalability_test ----
\* The store is built once, before the sweep, and handed to scalability_test;
\* its worker and store are the same code as those of the queue benchmark.

\* head of the loop over thread_counts, up to the point where the queue is filled
ScalIter ==
  /\ dpc = "main"
  /\ cfg < Len(thread_counts)
  /\ cfg' = cfg + 1
  /\ Populate
  /\ dpc' = "start"
  /\ UNCHANGED <<store, thread_counts, num_operations, join_idx, results, plan>>

\* avg_lock_wait = hybrid_obj.lock_wait_time / max(1, num_operations), kept as
\* the pair of its numerator and denominator
AvgLockWait == <<lock_wait_time, IF num_operations > 1 THEN num_operations ELSE 1>>

\* results.append(...), all threads joined
ScalMeasure ==
  /\ dpc = "join"
  /\ join_idx > num_threads
  /\ results' = Append(results, <<num_threads, AvgLockWait>>)
  /\ dpc' = "main"
  /\ UNCHANGED <<store, task_queue, unfinished_tasks, wvars, thread_counts,
                 num_operations, cfg, join_idx, plan, hvars>>

\* return results
ScalReturn ==
  /\ dpc = "main"
  /\ cfg = Len(thread_counts)
  /\ dpc' = "done"
  /\ UNCHANGED <<store, task_queue, unfinished_tasks, wvars, thread_counts,
                 num_operations, cfg, join_idx, results, plan, hvars>>

\* the first two configurations of the sweep, of one task each
InitScal ==
  /\ InitCommon
  /\ thread_counts = <<1, 2>>
  /\ num_operations = 1
  /\ plan \in { <<q1, q2>> : q1 \in Workloads(TaskChoices, 1),
                              q2 \in Workloads(TaskChoices, 1) }

NextScal ==
  \/ ScalIter
  \/ StartThreads
  \/ JoinReturn
  \/ ScalMeasure
  \/ ScalReturn
  \/ \E w \in Workers : WorkerStep(w)

SpecScal == InitScal /\ [][NextScal]_vars

\* ---- a run of two threads on a workload of MaxOps + 2 tasks ----
\* writes and reads of "a" and hybrid operations on "c": long enough for each
\* key to be written twice
RepeatChoices ==
  { [kind |-> "local", key |-> "a", value |-> 1],
    [kind |-> "hybrid", key |-> "c", value |-> 2] }

InitRepeat ==
  /\ InitCommon
  /\ thread_counts = <<2>>
  /\ num_operations = MaxOps + 2
  /\ plan \in { <<q>> : q \in Workloads(RepeatChoices, num_operations) }

SpecRepeat == InitRepeat /\ [][Next]_vars

\* ---- a run of two threads on tasks of one shard ----
\* reads and writes of "a" and hybrid operations on "b", two keys of shard 1,
\* MaxOps + 1 of them: long enough for a key to be written twice and then read
OneShardChoices ==
  { [kind |-> "local", key |-> "a", value |-> 1],
    [kind |-> "hybrid", key |-> "b", value |-> 2] }

InitOneShard ==
  /\ InitCommon
  /\ thread_counts = <<2>>
  /\ num_operations = MaxOps + 1
  /\ plan \in { <<q>> : q \in Workloads(OneShardChoices, num_operations) }

SpecOneShard == InitOneShard /\ [][Next]_vars

\* ---- fair scheduling ----
\* the driver and every started thread keep being scheduled
DriverStep == MainIter \/ StartThreads \/ JoinReturn \/ Measure \/ MainDone

\* the workloads of the fair runs: every kind of task, the hybrid ones on either
\* shard, the others on "a"
FairChoices == { t \in TaskChoices : t.kind = "hybrid" \/ t.key = "a" }

FairInit ==
  /\ InitCommon
  /\ thread_counts \in { <<n>> : n \in ThreadCounts }
  /\ num_operations \in 0..MaxOps
  /\ plan \in { <<q>> : q \in Workloads(FairChoices, num_operations) }

FairSpec ==
  /\ FairInit
  /\ [][Next]_vars
  /\ WF_vars(DriverStep)
  /\ \A w \in Workers : WF_vars(WorkerStep(w))

\* ---- runs whose joins may time out ----
\* the workloads of these runs: hybrid tasks on "c" and local tasks on "a"
StragglerChoices ==
  { t \in TaskChoices : (t.kind = "hybrid" /\ t.key = "c")
                          \/ (t.kind = "local" /\ t.key = "a") }

InitStraggler ==
  /\ InitCommon
  /\ thread_counts \in { <<n>> : n \in ThreadCounts }
  /\ num_operations \in 0..MaxOps
  /\ plan \in { <<q>> : q \in Workloads(StragglerChoices, num_operations) }

SpecStraggler == InitStraggler /\ [][NextTimeout]_vars

\* ---- a fair driver, workers that may stall ----
\* the driver thread keeps being scheduled; nothing is assumed of the workers,
\* any of which may never finish
TimeoutDriverStep == DriverStep \/ JoinTimeout

DriverFairSpec == Init /\ [][NextTimeout]_vars /\ WF_vars(TimeoutDriverStep)

ScalDriverStep == ScalIter \/ StartThreads \/ JoinReturn \/ ScalMeasure \/ ScalReturn

ScalDriverFairSpec == InitScal /\ [][NextScal]_vars /\ WF_vars(ScalDriverStep)

\* ---- what the claims speak of ----
LwPcs == {"lw_acq", "lw_wait_rd", "lw_wait_wr", "lw_check", "lw_conf_rd",
          "lw_conf_wr", "lw_data_rd", "lw_data_wr", "lw_writes_rd",
          "lw_writes_wr", "lw_rel"}

\* the threads of the running configuration have been started
Started == cfg >= 1 /\ dpc \in {"join", "main", "done"}
\* ... and every one of them has exited
Quiescent == Started /\ \A w \in Workers : w <= num_threads => pc[w] = "exited"
\* no call of local_write is under way
NoWriteInProgress == \A w \in Workers : pc[w] \notin LwPcs

Ids == DOMAIN generated
KindIds(kind) == { i \in Ids : generated[i].kind = kind }
DoneIds == { i \in Ids : executed[i] >= 1 }
\* the tasks dispatched to local_write (hybrid, or local with the coin on write)
WriteIds == { i \in Ids : wrote[i] }
WriteIdsOf(key) == { i \in WriteIds : generated[i].key = key }

RECURSIVE SumOf(_)
SumOf(S) ==
  IF S = {} THEN 0
  ELSE LET i == CHOOSE x \in S : TRUE IN generated[i].value + SumOf(S \ {i})

Accumulator(key) == DictGetOrNone(local_data[_get_shard_index(key)], key)

\* C1: whenever no local_write is under way, every key that was written holds
\* the sum of the values of all writes issued for it, and a key never written
\* is absent: no write is lost or overwritten, whatever the interleaving.
C1_AccumulatorIsSum ==
  NoWriteInProgress =>
    \A k \in Keys :
      IF WriteIdsOf(k) = {} THEN Accumulator(k) = None
      ELSE Accumulator(k) = Some(SumOf(WriteIdsOf(k)))

C1_Witness ==
  /\ Quiescent
  /\ num_threads = 2
  /\ Cardinality(WriteIdsOf("a")) = 2
  /\ Accumulator("a") = Some(2)

AllHybrid == Ids # {} /\ \A i \in Ids : generated[i].kind = "hybrid"

\* C2: when the queue held hybrid tasks only and every worker has exited,
\* global_counter equals the sum of all accumulators: the gap that lines 107
\* and 108 of run_test compute from the store is 0.
C2_HybridGapZero ==
  (Quiescent /\ AllHybrid) =>
    /\ global_counter = total_local_sum
    /\ difference = 0

C2_Witness ==
  /\ Quiescent
  /\ AllHybrid
  /\ num_threads = 2
  /\ Len(generated) = 2
  /\ generated[1].key # generated[2].key
  /\ dpc = "done"
  /\ global_counter = 3

\* C3 as stated: under the mixed workload the gap is zero once all workers
\* have exited.
C3_GapZeroAtQuiescence == Quiescent => difference = 0

\* C3 as amended: once all workers have exited, global_counter is the sum of the
\* values of the executed critical and hybrid tasks, and the shards sum to the
\* values of the executed hybrid tasks and of the local tasks run as writes.
C3_GapAtQuiescence ==
  Quiescent =>
    /\ global_counter = SumOf(DoneIds \cap (KindIds("critical") \cup KindIds("hybrid")))
    /\ total_local_sum = SumOf(DoneIds \cap WriteIds)

C3_Witness ==
  /\ Quiescent
  /\ num_threads = 2
  /\ KindIds("critical") # {}
  /\ KindIds("local") \cap WriteIds # {}
  /\ difference # 0

\* C4: once no local_write is under way, write_conflicts counts exactly the
\* writes that found their key present; on the new store of a run that is the
\* number of writes less the number of keys written.
C4_ConflictsExact ==
  NoWriteInProgress =>
    /\ write_conflicts = present_writes
    /\ write_conflicts =
         Cardinality(WriteIds) - Cardinality({ generated[i].key : i \in WriteIds })

\* C5: after all workers of a run of at least one worker have exited, reads
\* plus writes is the number of local and hybrid tasks, and with the critical
\* tasks executed the counters account for every task.
C5_CountersAccountForTasks ==
  (Quiescent /\ num_threads >= 1) =>
    /\ local_reads + local_writes =
         Cardinality(KindIds("local")) + Cardinality(KindIds("hybrid"))
    /\ local_reads + local_writes + Cardinality(DoneIds \cap KindIds("critical"))
         = Len(generated)


AllExecutedOnce == \A i \in Ids : executed[i] = 1

\* C6: under fair scheduling a run ends with the driver done and every worker
\* exited; a worker exits only at a dequeue that finds the queue empty; and once
\* the workers of a run of at least one worker have all exited, the queue is
\* empty and every task has been executed.
C6_Terminates ==
  /\ <>(dpc = "done" /\ Quiescent)
  /\ [][\A w \in Workers :
          (pc[w] # "exited" /\ pc'[w] = "exited") =>
            (pc[w] = "get" /\ task_queue = <<>>)]_vars
  /\ []((Quiescent /\ num_threads >= 1) =>
          (task_queue = <<>> /\ AllExecutedOnce))

C6_Witness ==
  /\ dpc = "done"
  /\ Quiescent
  /\ num_threads = 2
  /\ Len(generated) = 1
  /\ AllExecutedOnce

\* where task i is: on the queue, with a worker, or executed
OnQueue(i) == Cardinality({ n \in DOMAIN task_queue : task_queue[n].id = i })
Holders(i) == { w \in Workers : task[w].id = i }

\* C7: from the moment the queue is filled, every task is in exactly one place
\* (once on the queue, with one worker, or executed once), so no task is run
\* by two workers or twice, and none is dropped: when the workers of a run of
\* at least one worker have all exited, each task has been executed once.
C7_ExactlyOnce ==
  cfg >= 1 =>
    /\ \A i \in Ids : OnQueue(i) + Cardinality(Holders(i)) + executed[i] = 1
    /\ (Quiescent /\ num_threads >= 1) => AllExecutedOnce

C7_Witness ==
  /\ Quiescent
  /\ num_threads = 2
  /\ Len(generated) = 2
  /\ AllExecutedOnce
  /\ generated[1].kind = "hybrid"
  /\ generated[2].kind = "critical"

HeldShards(w) == { s \in Shards : local_locks[s] = w }
HeldLocks(w) == Cardinality(HeldShards(w)) + (IF global_lock = w THEN 1 ELSE 0)
AcquirePcs == {"lw_acq", "lr_acq", "cu_acq"}

\* C8: no thread ever holds more than one mutex, and a thread that is about to
\* request a mutex holds none: hybrid_operation has given back the shard lock
\* of its local_write when it asks for the global lock.
C8_OneLockAtATime ==
  \A w \in Workers :
    /\ HeldLocks(w) <= 1
    /\ pc[w] \in AcquirePcs => HeldLocks(w) = 0

C8_Witness ==
  \E w \in Workers, v \in Workers :
    /\ w # v
    /\ task[w].kind = "hybrid"
    /\ global_lock = w
    /\ HeldShards(w) = {}
    /\ HeldShards(v) # {}

\* the positions between the read and the write of a counter's update
RmwPcs ==
  [ lock_wait_time |-> {"lw_wait_wr", "cu_wait_wr"},
    write_conflicts |-> {"lw_conf_wr"},
    local_writes |-> {"lw_writes_wr"},
    local_reads |-> {"lr_reads_wr"} ]

\* C9: every update of a metrics counter is made by a thread holding a mutex,
\* and no two threads are between the read and the write of the same counter
\* at once.
C9_CountersRaceFree ==
  \A c \in DOMAIN RmwPcs :
    \A w \in Workers :
      pc[w] \in RmwPcs[c] =>
        /\ HeldLocks(w) = 1
        /\ \A v \in Workers \ {w} : pc[v] \notin RmwPcs[c]

\* C10: when the threads of a configuration are about to be started, the
\* store is as a new store is: nothing of an earlier configuration is in it.
C10_StoreZeroedAtStart == dpc = "start" => StoreInit

ExceptPcs == {"lw_except", "lr_except", "cu_except"}
\* the call that faulted is the first call on the store of a run of one thread
FirstCall(w) ==
  /\ num_threads = 1
  /\ DoneIds = {}
  /\ pc[w] = "cu_except" => task[w].kind = "critical"

\* C11: when a call is in its except clause after a fault in its with block,
\* the thread holds no mutex, and the store is as it was before the call: for
\* the first call of a one-thread run, as the new store was.
C11_FaultLeavesStoreIntact ==
  \A w \in Workers :
    pc[w] \in ExceptPcs =>
      /\ HeldLocks(w) = 0
      /\ FirstCall(w) => StoreData = <<FreshData, 0, 0, 0, 0, 0>>

\* C12: a run with 0 worker threads and a non-empty queue never blocks (the
\* driver has a step to take until the sweep is done), leaves all M tasks on the
\* queue and the store as new, and reports 0 threads, gap 0 and zero counters.
C12_ZeroThreads ==
  (cfg >= 1 /\ num_threads = 0 /\ Len(generated) >= 1) =>
    /\ task_queue = generated
    /\ unfinished_tasks = Len(generated)
    /\ StoreInit
    /\ dpc # "done" => ENABLED DriverStep
    /\ dpc \in {"main", "done"} =>
         (Len(results) = cfg /\ results[cfg] = <<0, 0, 0, 0>>)

C12_Witness ==
  /\ num_threads = 0
  /\ dpc = "done"
  /\ Len(task_queue) >= 2
  /\ Len(task_queue) = num_operations
  /\ results = << <<0, 0, 0, 0>> >>

ShardsHolding(key) == { s \in Shards : key \in DOMAIN local_data[s] }
\* the positions inside the with block of local_write and of local_read
ShardBlockPcs == LwBlockPcs \cup {"lw_rel"} \cup LrBlockPcs

\* C14: the shard of a key is a valid index that depends on the key alone; every
\* key stored in shard i has shard index i, so no key is in two shards; and a
\* thread inside a read or a write of a key holds the mutex of that key's shard
\* and no other.
C14_ShardOfKeyStable ==
  /\ \A k \in Keys : _get_shard_index(k) \in Shards
  /\ \A s \in Shards : \A k \in DOMAIN local_data[s] : _get_shard_index(k) = s
  /\ \A k \in Keys : Cardinality(ShardsHolding(k)) <= 1
  /\ \A w \in Workers :
       pc[w] \in ShardBlockPcs => HeldShards(w) = {_get_shard_index(task[w].key)}

C14_Witness ==
  /\ ShardsHolding("c") = {2}
  /\ \E w \in Workers :
       /\ pc[w] = "lr_ret"
       /\ task[w].key = "a"
       /\ local_locks[1] = w

\* the writes of key whose with block has been left: dispatched to local_write
\* and no longer in it
InWrite(i) == \E w \in Workers : task[w].id = i /\ pc[w] \in LwPcs
CompletedWritesOf(key) == { i \in WriteIdsOf(key) : ~InWrite(i) }
\* the writes of key that have not yet taken the shard mutex
WaitingWritesOf(key) ==
  { i \in WriteIdsOf(key) : \E w \in Workers : task[w].id = i /\ pc[w] = "lw_acq" }
SumRead(S) == IF S = {} THEN None ELSE Some(SumOf(S))

\* C15: while a local_read of k holds the shard mutex, every write of k has
\* either left its critical section or not yet entered it, and the value the
\* read returns is the sum of the values of the former, None if and only if
\* there is none.
C15_ReadReturnsCompletedSum ==
  /\ [](\A w \in Workers :
          pc[w] \in LrBlockPcs =>
            WriteIdsOf(task[w].key) =
              CompletedWritesOf(task[w].key) \cup WaitingWritesOf(task[w].key))
  /\ [][\A w \in Workers :
          (pc[w] = "lr_ret" /\ pc'[w] = "task_done") =>
            /\ read_result'[w] =
                 SumRead(WriteIdsOf(task[w].key) \ WaitingWritesOf(task[w].key))
            /\ (read_result'[w] = None) <=>
                 (WriteIdsOf(task[w].key) \ WaitingWritesOf(task[w].key) = {})]_vars

C15_Witness ==
  \E w \in Workers :
    /\ pc[w] = "task_done"
    /\ task[w].kind = "local"
    /\ task[w].key = "a"
    /\ ~wrote[task[w].id]
    /\ Cardinality(WriteIdsOf("a")) = 2
    /\ read_result[w] = Some(2)

\* the threads inside the critical section of shard s, and of the global lock
InShard(s) == { w \in Workers : pc[w] \in ShardBlockPcs /\ Shard(w) = s }
InGlobal == { w \in Workers : pc[w] \in CuBlockPcs \cup {"cu_rel"} }
\* the critical_update calls (of critical and of hybrid tasks) that have left
\* their critical section, and those that have added their increment
CuCompleted ==
  { i \in KindIds("critical") \cup KindIds("hybrid") :
      \/ executed[i] >= 1
      \/ \E w \in Workers : task[w].id = i /\ pc[w] = "task_done" }
CuApplied ==
  CuCompleted \cup
    { i \in Ids : \E w \in Workers : task[w].id = i /\ pc[w] = "cu_rel" }

\* C16: at most one thread is inside the critical section of a shard, at most
\* one inside the global one, each holding the mutex; and no increment of
\* global_counter is lost: the counter is the sum of the increments applied,
\* which, whenever the global mutex is free, are those of the completed calls.
C16_MutualExclusion ==
  /\ \A s \in Shards :
       /\ Cardinality(InShard(s)) <= 1
       /\ \A w \in InShard(s) : local_locks[s] = w
  /\ Cardinality(InGlobal) <= 1
  /\ \A w \in InGlobal : global_lock = w
  /\ global_counter = SumOf(CuApplied)
  /\ global_lock = 0 => global_counter = SumOf(CuCompleted)

C16_Witness ==
  \E w \in Workers, v \in Workers :
    /\ w \in InShard(1)
    /\ v \in InGlobal
    /\ pc[v] = "cu_rel"
    /\ task[v].kind = "critical"
    /\ global_counter = task[v].value

\* run_test has read the store and returned its tuple
Measured == cfg >= 1 /\ dpc \in {"main", "done"}
\* a worker is between the local write and the global update of a hybrid task
MidHybrid(w) == task[w].kind = "hybrid" /\ pc[w] \in {"lw_rel", "lw_except", "cu_acq"}

\* C17 as stated: when run_test measures, every worker it started has exited.
\* (A worker never leaves "exited" and none is started after the measurement,
\* so a worker seen running after it was running at it.)
C17_AllExitedAtMeasure == Measured => Quiescent

\* C17 as amended: every thread whose join returned because it had finished
\* has exited, and run_test measures after all joins have returned; so it
\* measures with every worker exited whenever no join timed out.
C17_JoinedHaveExited ==
  /\ \A w \in Workers :
       (Started /\ w <= num_threads /\ w < join_idx /\ w \notin timed_out) =>
         pc[w] = "exited"
  /\ Measured => join_idx > num_threads
  /\ (Measured /\ timed_out = {}) => Quiescent

C17_Witness ==
  /\ Measured
  /\ num_threads = 2
  /\ timed_out = {1}
  /\ MidHybrid(1)
  /\ pc[2] = "exited"
  /\ Len(results) = 1

\* the positions of a hybrid_operation from the update of the accumulator to
\* the update of global_counter
InFlightPcs == {"lw_writes_rd", "lw_writes_wr", "lw_rel", "cu_acq",
                "cu_wait_rd", "cu_wait_wr", "cu_ctr_rd", "cu_ctr_wr"}
InFlight ==
  { i \in KindIds("hybrid") :
      \E w \in Workers : task[w].id = i /\ pc[w] \in InFlightPcs }

\* C18: in a run of hybrid tasks only (values positive), in every state
\* global_counter is at most the sum of the shard accumulators, and the sum
\* exceeds it by the values of the hybrid operations that have made their
\* local write and not yet their global update.
C18_CounterNeverAhead ==
  (cfg >= 1 /\ AllHybrid) =>
    /\ global_counter <= total_local_sum
    /\ total_local_sum - global_counter = SumOf(InFlight)

C18_Witness ==
  /\ AllHybrid
  /\ Cardinality(InFlight) = 2
  /\ total_local_sum = 3
  /\ global_counter = 0
  /\ \E w \in Workers : pc[w] = "cu_ctr_wr"

\* the gap a mixed workload leaves: the values of the executed critical tasks
\* less those of the local tasks executed as writes
MixedGap ==
  SumOf(DoneIds \cap KindIds("critical")) - SumOf(KindIds("local") \cap WriteIds)

\* C19: once all workers of a run on a new store have exited, global_counter
\* minus the sum of the shard accumulators is the sum of the values of the
\* executed critical tasks minus that of the local tasks executed as writes
\* (hybrid tasks and reads add nothing), and this is the gap in the tuple of a
\* run_test whose joins all ended with their thread.
C19_GapOfMixedWorkload ==
  /\ Quiescent => difference = MixedGap
  /\ (Measured /\ timed_out = {}) =>
       (Len(results) = cfg /\ results[cfg][2] = MixedGap)

C19_Witness ==
  /\ Measured
  /\ Quiescent
  /\ num_threads = 2
  /\ \E i \in KindIds("critical") : generated[i].value = 2
  /\ \E i \in KindIds("local") \cap WriteIds : generated[i].value = 1
  /\ results[cfg][2] = 1

LrAllPcs == {"lr_acq"} \cup LrBlockPcs
CuAllPcs == {"cu_acq", "cu_rel"} \cup CuBlockPcs
\* what shard s of the maps data holds for key k
KeyAt(data, s, k) == IF k \in DOMAIN data[s] THEN <<data[s][k]>> ELSE <<>>

\* C20: a step of local_read changes no field of the store but local_reads
\* (and the shard mutex), and inserts no key; a step of local_write changes
\* neither global_counter nor local_reads, and of the shard maps at most the
\* entry of its key in the shard of its key; a step of critical_update changes
\* no shard map and no counter but global_counter and lock_wait_time.
C20_FrameConditions ==
  [][\A w \in Workers :
       pc'[w] # pc[w] =>
         /\ pc[w] \in LrAllPcs =>
              /\ local_data' = local_data
              /\ global_counter' = global_counter
              /\ local_writes' = local_writes
              /\ lock_wait_time' = lock_wait_time
              /\ write_conflicts' = write_conflicts
              /\ global_lock' = global_lock
         /\ pc[w] \in LwPcs =>
              /\ global_counter' = global_counter
              /\ local_reads' = local_reads
              /\ global_lock' = global_lock
              /\ \A s \in Shards, k \in Keys :
                   (s # _get_shard_index(task[w].key) \/ k # task[w].key) =>
                     KeyAt(local_data', s, k) = KeyAt(local_data, s, k)
         /\ pc[w] \in CuAllPcs =>
              /\ local_data' = local_data
              /\ local_locks' = local_locks
              /\ local_reads' = local_reads
              /\ local_writes' = local_writes
              /\ write_conflicts' = write_conflicts]_vars

C20_Witness ==
  \E w \in Workers :
    /\ pc[w] = "task_done"
    /\ task[w].kind = "local"
    /\ task[w].key = "a"
    /\ ~wrote[task[w].id]
    /\ read_result[w] = None
    /\ ShardsHolding("a") = {}
    /\ ShardsHolding("b") = {1}
    /\ local_reads = 1
    /\ global_counter = 2

====
